---- MODULE Spec2Model ----
(***************************************************************************)
(* A model of the header-only logger of jfoscarini/logger                  *)
(* (logger_cpp11.hpp and logger_cpp23.hpp): the record builder log::Logger,*)
(* the log_* macros with their NDEBUG toggle, and the scope timer          *)
(* log::ScopeLogger, run by a bounded number of threads that share the     *)
(* diagnostic stream std::clog.                                            *)
(*                                                                         *)
(* Granularity.  Everything a thread does to its own objects is local, so  *)
(* it is merged into the step that next touches shared state.  The shared  *)
(* state is std::clog, and ~Logger inserts into it twice                   *)
(* (`std::clog << m_stream.str() << '\n'`): the two insertions are two     *)
(* steps.  The standard only promises that concurrent insertions are free  *)
(* of data races, so a finer interleaving (inside one insertion) is        *)
(* allowed too; every behaviour of this model is a behaviour of the code.  *)
(***************************************************************************)
EXTENDS Integers, Sequences, FiniteSets, TLC

(***************************************************************************)
(* Bounds of the model.                                                    *)
(***************************************************************************)
\* threads of the host program that log concurrently (N)
NThreads == 2
\* log statements each thread executes (M)
MaxStmts == 2
\* log statements of the single-threaded formatting workload
MaxLogStmts == 1
\* ScopeLogger objects created in one run
MaxTimers == 2
\* frames (timers, try blocks, guards) on one thread's stack
MaxDepth == 3

Threads == 1..NThreads

\* wall-clock readings (ms since the epoch) the run may start at: the clock
\* then rolls the second, the minute and the hour over (00:59:59.999,
\* 01:00:00.000), and the milliseconds that follow need zero padding
WallStarts == {3599999}

\* the two implementations under src/
Impls == {"cpp11", "cpp23"}

(***************************************************************************)
(* enum class Level                                                        *)
(***************************************************************************)
Level ==
  {"Trace", "Debug", "Info", "Notice", "Warning", "Error", "Critical",
   "Alert", "Emergency", "Profile"}

RESET == "\\033[0m"

colorCode(level) ==
  CASE level = "Trace"     -> "\\033[1;37m"
    [] level = "Debug"     -> "\\033[1;34m"
    [] level = "Info"      -> "\\033[1;32m"
    [] level = "Notice"    -> "\\033[1;36m"
    [] level = "Warning"   -> "\\033[1;33m"
    [] level = "Error"     -> "\\033[1;31m"
    [] level = "Critical"  -> "\\033[1;35m"
    [] level = "Alert"     -> "\\033[1;41m"
    [] level = "Emergency" -> "\\033[1;41;97m"
    [] level = "Profile"   -> "\\033[1;36m"
    [] OTHER               -> "\\033[0m"

\* a table that lost the case of Level::Notice
levelLabelNoNotice(level) ==
  CASE level = "Trace"     -> "  TRACE  "
    [] level = "Debug"     -> "  DEBUG  "
    [] level = "Info"      -> "  INFO   "
    [] level = "Warning"   -> " WARNING "
    [] level = "Error"     -> "  ERROR  "
    [] level = "Critical"  -> "CRITICAL "
    [] level = "Alert"     -> "  ALERT  "
    [] level = "Emergency" -> "EMERGENCY"
    [] level = "Profile"   -> "PROFILING"
    [] OTHER               -> " UNKNOWN "

levelLabel(level) ==
  CASE level = "Trace"     -> "  TRACE  "
    [] level = "Debug"     -> "  DEBUG  "
    [] level = "Info"      -> "  INFO   "
    [] level = "Notice"    -> " NOTICE  "
    [] level = "Warning"   -> " WARNING "
    [] level = "Error"     -> "  ERROR  "
    [] level = "Critical"  -> "CRITICAL "
    [] level = "Alert"     -> "  ALERT  "
    [] level = "Emergency" -> "EMERGENCY"
    [] level = "Profile"   -> "PROFILING"
    [] OTHER               -> " UNKNOWN "

(***************************************************************************)
(* Text rendering: operator<< of an ostringstream.                         *)
(***************************************************************************)
Digit(d) ==
  CASE d = 0 -> "0" [] d = 1 -> "1" [] d = 2 -> "2" [] d = 3 -> "3"
    [] d = 4 -> "4" [] d = 5 -> "5" [] d = 6 -> "6" [] d = 7 -> "7"
    [] d = 8 -> "8" [] d = 9 -> "9"

\* operator<< of a non-negative integer: its decimal digits
RECURSIVE Dec(_)
Dec(n) == IF n < 10 THEN Digit(n) ELSE Dec(n \div 10) \o Digit(n % 10)

\* std::setw(w) << std::setfill('0') << n
RECURSIVE ZeroFill(_, _)
ZeroFill(s, w) == IF Len(s) >= w THEN s ELSE ZeroFill("0" \o s, w)

\* the values a log statement streams: strings and integers, as
\* <<type, string, integer>>
StrVal(s) == <<"str", s, 0>>
IntVal(n) == <<"int", "", n>>

\* m_stream << value
Render(v) == IF v[1] = "int" THEN Dec(v[3]) ELSE v[2]

\* Logger::timestamp of the wall-clock reading `now` (ms since the epoch);
\* the local time zone is taken to be UTC
timestamp(now) ==
  LET ms  == now % 1000
      itt == now \div 1000
      hh  == (itt \div 3600) % 24
      mm  == (itt \div 60) % 60
      ss  == itt % 60
  IN  ZeroFill(Dec(hh), 2) \o ":" \o ZeroFill(Dec(mm), 2) \o ":"
        \o ZeroFill(Dec(ss), 2) \o "." \o ZeroFill(Dec(ms), 3)

(***************************************************************************)
(* class Logger: the buffer m_stream after each member function.           *)
(***************************************************************************)
\* a constructor that forgot the test of category.empty()
LoggerCtorAlwaysCategory(ts, level, category) ==
  "[" \o ts \o "][" \o colorCode(level) \o levelLabel(level) \o "\\033[0m]"
    \o "[" \o category \o "]" \o " "

LoggerCtor(ts, level, category) ==
  "[" \o ts \o "][" \o colorCode(level) \o levelLabel(level) \o "\\033[0m]"
    \o (IF category # "" THEN "[" \o category \o "]" ELSE "")
    \o " "

LoggerAppend(buf, value) == buf \o Render(value)

\* ~Logger, first statement: the buffer that is then written
LoggerDtor(buf) == buf \o "\\033[0m"

\* a sink that does not keep the order of insertion: the newest comes first
ClogInsertFront(stream, chunk) == <<chunk>> \o stream

\* std::clog << x: one insertion into the shared stream
ClogInsert(stream, chunk) == Append(stream, chunk)

(***************************************************************************)
(* State.                                                                  *)
(***************************************************************************)
VARIABLES
  ndebug,      \* the build-time toggle: NDEBUG is defined
  impl,        \* which of the two headers the program includes
  clog,        \* std::clog: the insertions made so far, in order
  wall,        \* std::chrono::system_clock, in ms
  steady,      \* std::chrono::steady_clock, in us
  lg,          \* per thread: the Logger temporary of the statement it runs
  done,        \* per thread: statements completed
  evaluated,   \* operand expressions of log statements evaluated so far
  timers,      \* the ScopeLogger objects ever created, by id
  stack,       \* per thread: the automatic objects and try blocks in scope
  mode,        \* per thread: "run", or "unwind" while an exception propagates
  uncaught,    \* per thread: std::uncaught_exceptions()
  terminated   \* std::terminate has been called

vars ==
  <<ndebug, impl, clog, wall, steady, lg, done, evaluated, timers, stack,
    mode, uncaught, terminated>>

\* Every record below is written with its fields in the order in which TLC
\* keeps them, so that a value shared by two workers is never reordered
\* while the other reads it.
NoObj == [tag |-> "", file |-> "", line |-> 0, start |-> 0]

NoLogger ==
  [buf |-> "", st |-> "none", ops |-> <<>>,
   src |-> [level |-> "", now |-> 0, category |-> "", kind |-> "none",
            thread |-> 0, label |-> "", color |-> "", vals |-> <<>>,
            tm |-> 0, word |-> "", obj |-> NoObj, mono |-> 0]]

\* what a record in flight remembers of the statement it comes from
Source(kind, t, now, level, category, vals, tm, word, obj, mono) ==
  [level |-> level, now |-> now, category |-> category, kind |-> kind,
   thread |-> t, label |-> levelLabel(level), color |-> colorCode(level),
   vals |-> vals, tm |-> tm, word |-> word, obj |-> obj, mono |-> mono]

InitCommon ==
  /\ impl \in Impls
  /\ clog = <<>>
  /\ wall \in WallStarts
  /\ steady = 0
  /\ lg = [t \in Threads |-> NoLogger]
  /\ done = [t \in Threads |-> 0]
  /\ evaluated = 0
  /\ timers = <<>>
  /\ stack = [t \in Threads |-> <<>>]
  /\ mode = [t \in Threads |-> "run"]
  /\ uncaught = [t \in Threads |-> 0]
  /\ terminated = FALSE

\* the active build: NDEBUG is not defined
Init == ndebug = FALSE /\ InitCommon

\* the inert build: NDEBUG is defined
InitInert == ndebug = TRUE /\ InitCommon

\* a thread is between two statements of its own
Idle(t) == ~terminated /\ lg[t].st = "none" /\ mode[t] = "run"

(***************************************************************************)
(* A log statement `log_<level>(category) << v1 << ... << vn;`             *)
(***************************************************************************)
\* macros that are active in every build
LogMacroOn(nd, now, level, category) ==
  <<LoggerCtor(timestamp(now), level, category)>>

\* `log_<level>(category)`: the Logger temporaries the macro constructs,
\* none under NDEBUG (`if (true) {} else log::Logger(..)`)
LogMacro(nd, now, level, category) ==
  IF nd THEN <<>> ELSE <<LoggerCtor(timestamp(now), level, category)>>

\* the statement begins: under NDEBUG it is over at once; otherwise the
\* Logger temporary is constructed
StmtBegin(t, level, category, ops, max) ==
  /\ Idle(t)
  /\ done[t] < max
  /\ IF LogMacro(ndebug, wall, level, category) = <<>>
       THEN /\ done' = [done EXCEPT ![t] = @ + 1]
            /\ UNCHANGED <<lg, wall>>
       ELSE /\ lg' = [lg EXCEPT ![t] =
                        [buf |-> LogMacro(ndebug, wall, level, category)[1],
                         st |-> "open",
                         ops |-> ops,
                         src |-> Source("stmt", t, wall, level, category, ops,
                                        0, "", NoObj, 0)]]
            /\ wall' = wall + 1
            /\ UNCHANGED done
  /\ UNCHANGED <<ndebug, impl, clog, steady, evaluated, timers, stack, mode,
                 uncaught, terminated>>

\* `<< value`: the next operand is evaluated and appended
StmtAppend(t) ==
  /\ ~terminated
  /\ lg[t].st = "open"
  /\ lg[t].ops # <<>>
  /\ lg' = [lg EXCEPT ![t].buf = LoggerAppend(@, Head(lg[t].ops)),
                      ![t].ops = Tail(@)]
  /\ evaluated' = evaluated + 1
  /\ UNCHANGED <<ndebug, impl, clog, wall, steady, done, timers, stack, mode,
                 uncaught, terminated>>

\* the end of the full expression: ~Logger appends the reset sequence and
\* inserts the buffer into std::clog
StmtEnd(t) ==
  /\ ~terminated
  /\ lg[t].st = "open"
  /\ lg[t].ops = <<>>
  /\ clog' = ClogInsert(clog, [src |-> lg[t].src,
                               text |-> LoggerDtor(lg[t].buf)])
  /\ lg' = [lg EXCEPT ![t].st = "nl", ![t].buf = LoggerDtor(@)]
  /\ UNCHANGED <<ndebug, impl, wall, steady, done, evaluated, timers, stack,
                 mode, uncaught, terminated>>

\* ~Logger, second insertion: `<< '\n'`; the temporary is gone afterwards
WriteNewline(t) ==
  /\ ~terminated
  /\ lg[t].st = "nl"
  /\ clog' = ClogInsert(clog, [src |-> lg[t].src, text |-> "\n"])
  /\ lg' = [lg EXCEPT ![t] = NoLogger]
  /\ done' = [done EXCEPT ![t] = IF lg[t].src.kind = "stmt" THEN @ + 1 ELSE @]
  /\ UNCHANGED <<ndebug, impl, wall, steady, evaluated, timers, stack, mode,
                 uncaught, terminated>>

(***************************************************************************)
(* class ScopeLogger                                                       *)
(***************************************************************************)
File == "main.cpp"
Tags == {"load"}
Lines == {42}

\* `{:0.3f}` / std::fixed << std::setprecision(3) of elapsed_us / 1000.0
Fixed3(us) == Dec(us \div 1000) \o "." \o ZeroFill(Dec(us % 1000), 3)

\* the constructor's message
StartMessage(obj) ==
  "START " \o obj.tag \o " @ " \o obj.file \o ":" \o Dec(obj.line)

\* std::uncaught_exception() of a thread with n exceptions in flight
uncaught_exception(n) == n > 0

\* the destructor's choice of leave_message
LeaveMessage(im, n) ==
  IF im = "cpp11"
    THEN (IF uncaught_exception(n) THEN "EXCEPTION!" ELSE "FINISH")
    ELSE (IF n = 0 THEN "FINISH" ELSE "EXCEPTION!")

\* the destructor's message
LeaveText(word, obj, elapsed_us) ==
  word \o " " \o obj.tag \o " (" \o Fixed3(elapsed_us) \o "ms)" \o " @ "
    \o obj.file \o ":" \o Dec(obj.line)

\* a macro that is inert in every build
ProfilingOff(nd, now, msg) == <<>>

\* `log_profiling() << msg`: the buffers it hands to std::clog, none under
\* NDEBUG (`if (true) {} else ...`), where msg is not evaluated either
Profiling(nd, now, msg) ==
  IF nd
    THEN <<>>
    ELSE <<LoggerDtor(LoggerAppend(LoggerCtor(timestamp(now), "Profile", ""),
                                   StrVal(msg)))>>

\* thread t runs `log_profiling() << msg` up to the first insertion
Emit(t, src, msg) ==
  LET out == Profiling(ndebug, wall, msg)
  IN  IF out = <<>>
        THEN UNCHANGED <<clog, lg, wall>>
        ELSE /\ clog' = ClogInsert(clog, [src |-> src, text |-> out[1]])
             /\ lg' = [lg EXCEPT ![t] = [buf |-> out[1], st |-> "nl",
                                         ops |-> <<>>, src |-> src]]
             /\ wall' = wall + 1

ObjOf(tm) ==
  [tag |-> tm.tag, file |-> tm.file, line |-> tm.line, start |-> tm.start]

Frame(kind, id, resume) == [kind |-> kind, id |-> id, resume |-> resume]

Top(stk) == stk[Len(stk)]
Pop(stk) == SubSeq(stk, 1, Len(stk) - 1)

\* the timers of a stack, innermost last
TimersIn(stk) == {stk[i].id : i \in {j \in DOMAIN stk : stk[j].kind = "timer"}}

\* ScopeLogger::ScopeLogger(tag, file, line), of an automatic object
Construct(t, tag, line) ==
  /\ Idle(t)
  /\ Len(timers) < MaxTimers
  /\ Len(stack[t]) < MaxDepth
  /\ LET id == Len(timers) + 1
         tm == [tag |-> tag, file |-> File, line |-> line, start |-> steady,
                thread |-> t, alive |-> TRUE, origin |-> "ctor",
                exit |-> "none", encl |-> TimersIn(stack[t])]
     IN  /\ timers' = Append(timers, tm)
         /\ stack' = [stack EXCEPT ![t] = Append(@, Frame("timer", id, ""))]
         /\ Emit(t, Source("start", t, wall, "Profile", "",
                           <<StrVal(StartMessage(ObjOf(tm)))>>, id, "START",
                           ObjOf(tm), steady),
                 StartMessage(ObjOf(tm)))
  /\ steady' = steady + 1
  /\ UNCHANGED <<ndebug, impl, done, evaluated, mode, uncaught, terminated>>

\* `log_profile(tag);`: nothing under NDEBUG, a ScopeLogger otherwise
LogProfile(t, tag, line) ==
  IF ndebug
    THEN /\ Idle(t)
         /\ done[t] < MaxStmts
         /\ done' = [done EXCEPT ![t] = @ + 1]
         /\ UNCHANGED <<ndebug, impl, clog, wall, steady, lg, evaluated,
                        timers, stack, mode, uncaught, terminated>>
    ELSE Construct(t, tag, line)

\* ScopeLogger::~ScopeLogger of timer id, run by thread t whose stack is
\* left as stk; `how` tells what made the scope exit
Destroy(t, id, how, stk) ==
  LET tm   == timers[id]
      word == LeaveMessage(impl, uncaught[t])
      msg  == LeaveText(word, ObjOf(tm), steady - tm.start)
  IN  /\ timers' = [timers EXCEPT ![id].alive = FALSE, ![id].exit = how]
      /\ stack' = [stack EXCEPT ![t] = stk]
      /\ steady' = steady + 1
      /\ Emit(t, Source("leave", t, wall, "Profile", "", <<StrVal(msg)>>, id,
                        word, ObjOf(tm), steady),
              msg)

\* the block of the innermost timer ends normally
ScopeExit(t) ==
  /\ Idle(t)
  /\ stack[t] # <<>>
  /\ Top(stack[t]).kind = "timer"
  /\ Destroy(t, Top(stack[t]).id, "normal", Pop(stack[t]))
  /\ UNCHANGED <<ndebug, impl, done, evaluated, mode, uncaught, terminated>>

(***************************************************************************)
(* The caller: try blocks, exceptions, and objects whose destructors run   *)
(* code of their own (guards).                                             *)
(***************************************************************************)
\* a handler of the function that is running would catch what it throws
HandlerInReach(stk) ==
  \E i \in DOMAIN stk :
    /\ stk[i].kind = "try"
    /\ \A j \in (i + 1)..Len(stk) : stk[j].kind # "cleanup"

EnterTry(t) ==
  /\ Idle(t)
  /\ Len(stack[t]) < MaxDepth
  /\ stack' = [stack EXCEPT ![t] = Append(@, Frame("try", 0, ""))]
  /\ UNCHANGED <<ndebug, impl, clog, wall, steady, lg, done, evaluated,
                 timers, mode, uncaught, terminated>>

LeaveTry(t) ==
  /\ Idle(t)
  /\ stack[t] # <<>>
  /\ Top(stack[t]).kind = "try"
  /\ stack' = [stack EXCEPT ![t] = Pop(@)]
  /\ UNCHANGED <<ndebug, impl, clog, wall, steady, lg, done, evaluated,
                 timers, mode, uncaught, terminated>>

DeclareGuard(t) ==
  /\ Idle(t)
  /\ Len(stack[t]) < MaxDepth
  /\ stack' = [stack EXCEPT ![t] = Append(@, Frame("guard", 0, ""))]
  /\ UNCHANGED <<ndebug, impl, clog, wall, steady, lg, done, evaluated,
                 timers, mode, uncaught, terminated>>

\* a guard's destructor starts, at the end of its block or while unwinding;
\* its body runs as ordinary code
RunGuard(t) ==
  /\ ~terminated
  /\ lg[t].st = "none"
  /\ stack[t] # <<>>
  /\ Top(stack[t]).kind = "guard"
  /\ stack' = [stack EXCEPT ![t] = Append(Pop(@), Frame("cleanup", 0, mode[t]))]
  /\ mode' = [mode EXCEPT ![t] = "run"]
  /\ UNCHANGED <<ndebug, impl, clog, wall, steady, lg, done, evaluated,
                 timers, uncaught, terminated>>

\* the guard's destructor returns; unwinding goes on if it was under way
LeaveCleanup(t) ==
  /\ Idle(t)
  /\ stack[t] # <<>>
  /\ Top(stack[t]).kind = "cleanup"
  /\ stack' = [stack EXCEPT ![t] = Pop(@)]
  /\ mode' = [mode EXCEPT ![t] = Top(stack[t]).resume]
  /\ UNCHANGED <<ndebug, impl, clog, wall, steady, lg, done, evaluated,
                 timers, uncaught, terminated>>

Throw(t) ==
  /\ Idle(t)
  /\ HandlerInReach(stack[t])
  /\ uncaught' = [uncaught EXCEPT ![t] = @ + 1]
  /\ mode' = [mode EXCEPT ![t] = "unwind"]
  /\ UNCHANGED <<ndebug, impl, clog, wall, steady, lg, done, evaluated,
                 timers, stack, terminated>>

\* unwinding destroys the innermost timer
UnwindTimer(t) ==
  /\ ~terminated
  /\ mode[t] = "unwind"
  /\ lg[t].st = "none"
  /\ stack[t] # <<>>
  /\ Top(stack[t]).kind = "timer"
  /\ Destroy(t, Top(stack[t]).id, "unwind", Pop(stack[t]))
  /\ UNCHANGED <<ndebug, impl, done, evaluated, mode, uncaught, terminated>>

\* unwinding reaches the try block: its handler is entered
Catch(t) ==
  /\ ~terminated
  /\ mode[t] = "unwind"
  /\ lg[t].st = "none"
  /\ stack[t] # <<>>
  /\ Top(stack[t]).kind = "try"
  /\ stack' = [stack EXCEPT ![t] = Pop(@)]
  /\ uncaught' = [uncaught EXCEPT ![t] = @ - 1]
  /\ mode' = [mode EXCEPT ![t] = "run"]
  /\ UNCHANGED <<ndebug, impl, clog, wall, steady, lg, done, evaluated,
                 timers, terminated>>

(***************************************************************************)
(* The statements the threads choose from.                                 *)
(***************************************************************************)
Categories == {"", "net"}

OperandLists ==
  {<<>>, <<StrVal("up")>>, <<StrVal("n="), IntVal(42)>>}

\* what thread t streams in the concurrent workload: its own name
ThreadOps(t) == <<StrVal("thread "), IntVal(t)>>

\* one thread, statements of every level, category and operand list
NextLog ==
  \/ \E level \in Level, category \in Categories, ops \in OperandLists :
       StmtBegin(1, level, category, ops, MaxLogStmts)
  \/ StmtAppend(1)
  \/ StmtEnd(1)
  \/ WriteNewline(1)

SpecLog == Init /\ [][NextLog]_vars

\* N threads, M statements each
NextConc ==
  \E t \in Threads :
    \/ StmtBegin(t, "Info", "", ThreadOps(t), MaxStmts)
    \/ StmtAppend(t)
    \/ StmtEnd(t)
    \/ WriteNewline(t)

SpecConc == Init /\ [][NextConc]_vars

(***************************************************************************)
(* Transfers: the defaulted move constructor and move assignment.          *)
(***************************************************************************)
\* what a moved-from m_tag may hold: a std::string is left valid but
\* unspecified (cpp11), a std::string_view is copied (cpp23)
MovedFromTag(im, tag) == IF im = "cpp11" THEN {"", tag} ELSE {tag}

\* `ScopeLogger b(std::move(a));` with a = timer src, in the running block
MoveConstruct(t, src) ==
  /\ Idle(t)
  /\ Len(timers) < MaxTimers
  /\ Len(stack[t]) < MaxDepth
  /\ src \in TimersIn(stack[t])
  /\ \E left \in MovedFromTag(impl, timers[src].tag) :
       timers' = Append([timers EXCEPT ![src].tag = left],
                        [timers[src] EXCEPT !.origin = "move",
                                            !.encl = TimersIn(stack[t])])
  /\ stack' = [stack EXCEPT ![t] =
                 Append(@, Frame("timer", Len(timers) + 1, ""))]
  /\ UNCHANGED <<ndebug, impl, clog, wall, steady, lg, done, evaluated, mode,
                 uncaught, terminated>>

\* `dst = std::move(src);`: no destructor runs, the members are overwritten
MoveAssign(t, dst, src) ==
  /\ Idle(t)
  /\ dst \in TimersIn(stack[t])
  /\ src \in TimersIn(stack[t])
  /\ dst # src
  /\ \E left \in MovedFromTag(impl, timers[src].tag) :
       timers' = [timers EXCEPT ![dst].tag = timers[src].tag,
                                ![dst].file = timers[src].file,
                                ![dst].line = timers[src].line,
                                ![dst].start = timers[src].start,
                                ![src].tag = left]
  /\ UNCHANGED <<ndebug, impl, clog, wall, steady, lg, done, evaluated, stack,
                 mode, uncaught, terminated>>

(***************************************************************************)
(* Failure inside the destructor.                                          *)
(***************************************************************************)
\* ~ScopeLogger of the innermost timer has started (its block ends, or the
\* stack is being unwound) and one of its steps throws: std::format or
\* oss.str() for want of memory, or the insertion into a std::clog whose
\* exceptions() mask is set.  The destructor is noexcept and holds no
\* handler, so std::terminate is called
DtorThrows(t) ==
  /\ ~terminated
  /\ lg[t].st = "none"
  /\ stack[t] # <<>>
  /\ Top(stack[t]).kind = "timer"
  /\ terminated' = TRUE
  /\ UNCHANGED <<ndebug, impl, clog, wall, steady, lg, done, evaluated,
                 timers, stack, mode, uncaught>>

(***************************************************************************)
(* Specifications.                                                         *)
(***************************************************************************)
\* the thread whose scopes are followed
MainThread == {1}

\* the caller's own steps
Caller(t) ==
  \/ EnterTry(t)
  \/ LeaveTry(t)
  \/ DeclareGuard(t)
  \/ RunGuard(t)
  \/ LeaveCleanup(t)
  \/ Throw(t)
  \/ Catch(t)

\* the scope timers of an active build, with try blocks and exceptions
Next ==
  \E t \in MainThread :
    \/ \E tag \in Tags, line \in Lines : LogProfile(t, tag, line)
    \/ ScopeExit(t)
    \/ UnwindTimer(t)
    \/ WriteNewline(t)
    \/ Caller(t)

Spec == Init /\ [][Next]_vars

\* the same, with timers moved from one object to another
NextMove ==
  \/ Next
  \/ \E t \in MainThread, src \in DOMAIN timers : MoveConstruct(t, src)
  \/ \E t \in MainThread, dst \in DOMAIN timers, src \in DOMAIN timers :
       MoveAssign(t, dst, src)

SpecMove == Init /\ [][NextMove]_vars

\* the same, with destructors that may fail
NextFault ==
  \/ Next
  \/ \E t \in MainThread : DtorThrows(t)

SpecFault == Init /\ [][NextFault]_vars

\* the inert build: log statements, log_profile and ScopeLogger objects
\* constructed directly
NextInert ==
  \E t \in MainThread :
    \/ \E level \in {"Info", "Profile"}, category \in Categories :
         StmtBegin(t, level, category, <<StrVal("n="), IntVal(42)>>, MaxStmts)
    \/ \E tag \in Tags, line \in Lines : LogProfile(t, tag, line)
    \/ \E tag \in Tags, line \in Lines : Construct(t, tag, line)
    \/ ScopeExit(t)
    \/ UnwindTimer(t)
    \/ Caller(t)

SpecInert == InitInert /\ [][NextInert]_vars

(***************************************************************************)
(* Reading the stream.                                                     *)
(***************************************************************************)
\* the positions of the text insertions of the records of timer id
Records(kind, id) ==
  {k \in DOMAIN clog :
     clog[k].text # "\n" /\ clog[k].src.kind = kind /\ clog[k].src.tm = id}

\* the lines of a stream: the text between one newline and the next
RECURSIVE LinesFrom(_, _, _)
LinesFrom(stream, k, cur) ==
  IF k > Len(stream) THEN <<>>
  ELSE IF stream[k].text = "\n"
         THEN <<cur>> \o LinesFrom(stream, k + 1, "")
         ELSE LinesFrom(stream, k + 1, cur \o stream[k].text)

CompleteLines(stream) == LinesFrom(stream, 1, "")

\* the stream is empty or ends with a newline
EndsWithNewline(stream) ==
  stream = <<>> \/ stream[Len(stream)].text = "\n"

RECURSIVE Renderings(_)
Renderings(vals) ==
  IF vals = <<>> THEN "" ELSE Render(Head(vals)) \o Renderings(Tail(vals))

\* the line of a statement, by the format of the specification:
\* [<timestamp>][<color><label><reset>][<category>] <message><reset>
ExpectedLine(src) ==
  "[" \o timestamp(src.now) \o "]"
    \o "[" \o colorCode(src.level) \o levelLabel(src.level) \o RESET \o "]"
    \o (IF src.category = "" THEN "" ELSE "[" \o src.category \o "]")
    \o " " \o Renderings(src.vals) \o RESET

\* the Profile line that carries msg
ProfileLine(now, msg) ==
  "[" \o timestamp(now) \o "][" \o "\\033[1;36m" \o "PROFILING" \o RESET
    \o "] " \o msg \o RESET

LeaveWords == {"FINISH", "EXCEPTION!"}

(***************************************************************************)
(* The claims.                                                             *)
(***************************************************************************)

\* C1: with timers only constructed and destroyed by scope exit (normal or
\* unwinding), the stream holds exactly one START record of every timer, no
\* leave record while the timer lives, and exactly one FINISH-or-EXCEPTION!
\* record, after the START record, once it is destroyed; every Profile
\* record in the stream belongs to a timer.
C1_OneStartThenOneLeave ==
  /\ \A id \in DOMAIN timers :
       LET st == Records("start", id)
           lv == Records("leave", id)
       IN  /\ Cardinality(st) = 1
           /\ \A k \in st :
                clog[k].text =
                  ProfileLine(clog[k].src.now,
                              "START " \o timers[id].tag \o " @ "
                                \o timers[id].file \o ":"
                                \o Dec(timers[id].line))
           /\ IF timers[id].alive
                THEN lv = {}
                ELSE /\ Cardinality(lv) = 1
                     /\ \A a \in st, b \in lv : a < b
                     /\ \A k \in lv :
                          /\ clog[k].src.word \in LeaveWords
                          /\ clog[k].src.mono >= timers[id].start
                          /\ clog[k].text =
                               ProfileLine(clog[k].src.now,
                                           clog[k].src.word \o " "
                                             \o timers[id].tag \o " ("
                                             \o Fixed3(clog[k].src.mono
                                                         - timers[id].start)
                                             \o "ms) @ " \o timers[id].file
                                             \o ":" \o Dec(timers[id].line))
  /\ \A k \in DOMAIN clog :
       /\ clog[k].src.kind \in {"start", "leave"}
       /\ clog[k].src.tm \in DOMAIN timers

\* a timer left by unwinding and a timer left normally, both fully emitted
C1_Witness ==
  /\ lg[1].st = "none"
  /\ \E i \in DOMAIN timers, j \in DOMAIN timers :
       /\ ~timers[i].alive /\ timers[i].exit = "unwind"
       /\ ~timers[j].alive /\ timers[j].exit = "normal"

\* C2: the leave word of every leave record tells how the timer's own scope
\* exited: FINISH exactly when it exited normally, EXCEPTION! exactly when
\* it was unwound.
C2_LeaveWordIsOwnExit ==
  \A k \in DOMAIN clog :
    clog[k].src.kind = "leave" =>
      /\ clog[k].src.word = "FINISH"
           <=> timers[clog[k].src.tm].exit = "normal"
      /\ clog[k].src.word = "EXCEPTION!"
           <=> timers[clog[k].src.tm].exit = "unwind"

\* C3: once N threads have each completed M log statements, the stream holds
\* exactly N*M lines, no unfinished line, and its lines are, one for one,
\* the full lines of the statements.
C3_WholeLinesWhenDone ==
  (\A t \in Threads : done[t] = MaxStmts) =>
    LET ls    == CompleteLines(clog)
        stmts == {k \in DOMAIN clog : clog[k].text # "\n"}
    IN  /\ Len(ls) = NThreads * MaxStmts
        /\ EndsWithNewline(clog)
        /\ \A i \in DOMAIN ls :
             \E k \in stmts : ls[i] = ExpectedLine(clog[k].src)
        /\ \A k \in stmts :
             \E i \in DOMAIN ls : ls[i] = ExpectedLine(clog[k].src)

\* C4: nothing of a record is in the stream while its builder is still
\* being appended to, and the stream is at all times a sequence of complete
\* newline-terminated lines.
C4_NoPartialLine ==
  /\ \A t \in Threads :
       lg[t].st = "open" =>
         \A k \in DOMAIN clog : clog[k].src # lg[t].src
  /\ EndsWithNewline(clog)

\* C5: the interval started by a constructed timer gets at most one leave
\* record, however the timer is moved.
C5_OneLeavePerInterval ==
  \A id \in DOMAIN timers :
    timers[id].origin = "ctor" =>
      Cardinality({k \in DOMAIN clog :
                     /\ clog[k].text # "\n"
                     /\ clog[k].src.kind = "leave"
                     /\ clog[k].src.obj.start = timers[id].start}) <= 1

\* C6: the destruction of a timer never ends the program, whatever fails
\* inside it.
C6_DestructionNeverAborts == ~terminated

\* C7: in the inert build the stream stays empty, no Logger is constructed
\* and no operand of a log statement is evaluated.
C7_InertBuildIsSilent ==
  ndebug =>
    /\ clog = <<>>
    /\ \A t \in Threads : lg[t] = NoLogger
    /\ evaluated = 0

\* log statements have run, a timer was constructed and destroyed normally
\* and another was unwound
C7_Witness ==
  /\ ndebug
  /\ done[1] = MaxStmts
  /\ \E i \in DOMAIN timers, j \in DOMAIN timers :
       /\ ~timers[i].alive /\ timers[i].exit = "unwind"
       /\ ~timers[j].alive /\ timers[j].exit = "normal"

\* C8: the text a log statement inserts is the line of the specification's
\* format for its timestamp, level, category and operands, the bracketed
\* category present exactly when the category is non-empty, and what it
\* inserts next is one newline.
C8_LineFormat ==
  \A k \in DOMAIN clog :
    (clog[k].src.kind = "stmt" /\ clog[k].text # "\n") =>
      /\ clog[k].text = ExpectedLine(clog[k].src)
      /\ k < Len(clog) =>
           clog[k + 1].text = "\n" /\ clog[k + 1].src = clog[k].src
      /\ k > 1 => clog[k - 1].text = "\n"

\* a complete line without category and with two operands
C8_Witness ==
  \E k \in DOMAIN clog :
    /\ k < Len(clog)
    /\ clog[k].src.kind = "stmt"
    /\ clog[k].src.category = ""
    /\ Len(clog[k].src.vals) = 2
    /\ clog[k].text # "\n"

\* the label and color tables of the specification
C9_SpecLabel(level) ==
  CASE level = "Trace"     -> "  TRACE  "
    [] level = "Debug"     -> "  DEBUG  "
    [] level = "Info"      -> "  INFO   "
    [] level = "Notice"    -> " NOTICE  "
    [] level = "Warning"   -> " WARNING "
    [] level = "Error"     -> "  ERROR  "
    [] level = "Critical"  -> "CRITICAL "
    [] level = "Alert"     -> "  ALERT  "
    [] level = "Emergency" -> "EMERGENCY"
    [] level = "Profile"   -> "PROFILING"

C9_SpecColor(level) ==
  CASE level = "Trace"     -> "\\033[1;37m"
    [] level = "Debug"     -> "\\033[1;34m"
    [] level = "Info"      -> "\\033[1;32m"
    [] level = "Notice"    -> "\\033[1;36m"
    [] level = "Warning"   -> "\\033[1;33m"
    [] level = "Error"     -> "\\033[1;31m"
    [] level = "Critical"  -> "\\033[1;35m"
    [] level = "Alert"     -> "\\033[1;41m"
    [] level = "Emergency" -> "\\033[1;41;97m"
    [] level = "Profile"   -> "\\033[1;36m"

\* C9: every Logger constructed for a level of the enumeration gets the
\* label of the specification's table, 9 characters long, and the level's
\* own color; none gets the fallback label or the fallback color.
C9_LevelTable ==
  \A t \in Threads :
    lg[t].st # "none" =>
      LET src == lg[t].src
      IN  /\ src.level \in Level
          /\ src.label = C9_SpecLabel(src.level)
          /\ Len(src.label) = 9
          /\ src.label # " UNKNOWN "
          /\ src.color = C9_SpecColor(src.level)
          /\ src.color # RESET

\* a Logger of level Notice is under construction
C9_Witness == lg[1].st = "open" /\ lg[1].src.level = "Notice"

\* C10: the records of a timer created while another timer of the thread is
\* alive lie strictly between the two records of that timer: the outer START
\* comes first, and the outer leave record, once there, comes after the
\* inner one.
C10_Bracketing ==
  \A j \in DOMAIN timers :
    \A i \in timers[j].encl :
      /\ Records("start", i) # {}
      /\ Records("start", j) # {}
      /\ \A a \in Records("start", i), b \in Records("start", j) : a < b
      /\ \A b \in Records("start", j), c \in Records("leave", j) : b < c
      /\ \A d \in Records("leave", i) :
           \E c \in Records("leave", j) : c < d

\* an inner timer was unwound and its outer timer has left as well
C10_Witness ==
  \E j \in DOMAIN timers :
    \E i \in timers[j].encl :
      /\ timers[j].exit = "unwind"
      /\ ~timers[i].alive
      /\ lg[1].st = "none"

====
